---- MODULE Spec2Model ----
(***************************************************************************)
(* Model of the ticker_scraper polling engines.                            *)
(*                                                                         *)
(*  - hedgeye_new_scraper.py: ProxyManager, AccountManager, the scheduler  *)
(*    process_accounts_continuously, the fetch tasks                       *)
(*    process_account_with_release / process_account, and the controller   *)
(*    main (specifications Spec, SpecPool and FairWindow).                 *)
(*  - bearcave_scraper.py / ibd_api_scraper.py: the set-variant poll loop  *)
(*    run_scraper (specification SpecSet).                                 *)
(*                                                                         *)
(* The program runs on one asyncio event loop: a coroutine runs without    *)
(* interruption from one await that suspends to the next, so every action  *)
(* below is the code between two suspension points.                        *)
(***************************************************************************)
EXTENDS Integers, Sequences, FiniteSets, Bags, TLC

\* ------------------------------------------------------------------ bounds
NAccounts == 3
NProxies == 2
NAlerts == 2
TickSeconds == 450
SentCap == 2
NIds == 3
MaxLen == 3
NPrices == 2
NCredentials == 5

\* ------------------------------------------------------- program constants
RateLimitSeconds == 900
AccountsPerRound == 2
BatchSize == 3
WindowStartHour == 8
WindowEndHour == 15

Accounts == 1..NAccounts

\* The accounts of cred/hedgeye_credentials.json, in the order of the file.
Credentials == 1..NCredentials

\* initialize_accounts is over: every account of the roster was validated.
Initialized ==
  [pc |-> "done", i |-> 1, running |-> {},
   result |-> [a \in Accounts |-> "session"],
   valid_accounts |-> [a \in Accounts |-> a]]

\* Nobody holds the lock.
NoHolder == [by |-> "nobody", email |-> 0]

\* The lock is held by the scheduler / by the task of an account.
HeldByScheduler == [by |-> "scheduler", email |-> 0]
HeldByTask(email) == [by |-> "task", email |-> email]
Proxies == 1..NProxies
AlertIds == 1..NAlerts

\* Seconds between one window's close and the next window's open.
ClosedGapSeconds == (24 - WindowEndHour + WindowStartHour) * 3600

Min(a, b) == IF a <= b THEN a ELSE b

Range(s) == {s[i] : i \in DOMAIN s}

\* The k-th content of the upstream "current alert" slot.
Feed(k) == [title |-> k, price |-> 1]

\* LAST_ALERT_FILE missing (or holding {}).
NoAlert == [title |-> 0, price |-> 0]

VARIABLES
  market,            \* wall clock against the trading window: "closed" | "open"
  main_pc,           \* main: "sleep" | "monitor" | "closing"
  sched_pc,          \* process_accounts_continuously: "off" | "top" | "idle" | "backoff" | "pace"
  pending,           \* accounts of the current round still to be launched
  currently_running, \* AccountManager.currently_running
  acct_rate_limited, \* AccountManager.rate_limited
  acct_file,         \* RATE_LIMIT_ACCOUNTS_FILE: missing, or the saved set
  rate_limited,      \* ProxyManager.rate_limited: proxy -> seconds since its stamp
  proxy_file,        \* RATE_LIMIT_PROXY_FILE: missing, or the saved map
  tasks,             \* bag of in-flight fetch tasks not waiting for last_alert_lock
  lock_held,         \* last_alert_lock is locked
  lock_waiters,      \* FIFO of tasks waiting for last_alert_lock
  upstream,          \* index of the alert the site currently shows
  last_alert_file,   \* LAST_ALERT_FILE
  sent,              \* history: alert title -> dispatches so far (saturating)
  tracking,          \* the four history variables below are recorded (SpecPool)
  markAge,           \* history: proxy -> seconds since its latest mark_rate_limited, -1 if none
  firstMarkAge,      \* history: proxy -> seconds since the first mark of its current exclusion
  acctMarkAge,       \* history: account -> seconds since its mark_rate_limited in this window, -1 if none or cleared
  got,               \* history: what the get_next_proxy call of the last step returned
  outcome,           \* history: what the fetch that ended in the last step returned
  notified,          \* history: the results of the notifier calls of the last dispatch
  cookie_files,      \* the accounts that have a file in data/hedgeye_cookies
  login_failed,      \* history: the accounts whose login inside a task failed
  expired,           \* the accounts whose cached cookies no longer pass the probe
  startup,           \* initialize_accounts: position, validations running, results
  acct_lock,         \* the holder of AccountManager.lock (NoHolder when free)
  scraper,           \* the program that runs: "hedgeye" | "bearcave" | "ibd"
  set_pc,            \* run_scraper: "off" | "poll" | "send" | "save" | "sleep"
  processed,         \* processed_urls / processed_trades
  processed_file,    \* PROCESSED_URLS_FILE / PROCESSED_TRADES_FILE: missing, or the saved list
  posts,             \* the list the last fetch returned
  new_posts,         \* new_posts / new_trades still to be sent
  seen_before,       \* history: processed when the last fetch returned
  dispatched,        \* history: the items sent since the last fetch returned
  unsaved,           \* history: identifiers sent, then lost from the seen set by a crash
  resent,            \* history: identifiers of unsaved that were sent again
  torn,              \* the seen-set file is cut short: not a complete JSON document
  origin             \* history: the identifiers in the file at first start, the items sent since

vars == <<market, main_pc, sched_pc, pending, currently_running,
          acct_rate_limited, acct_file, rate_limited, proxy_file, tasks,
          lock_held, lock_waiters, upstream, last_alert_file, sent,
          tracking, markAge, firstMarkAge, acctMarkAge, got, outcome,
          notified, cookie_files, login_failed, expired, startup, acct_lock,
          scraper, set_pc, processed, processed_file, posts, new_posts,
          seen_before, dispatched, unsaved, resent, torn, origin>>

mainVars == <<market, main_pc>>
schedVars == <<sched_pc, pending>>
acctVars == <<currently_running, acct_rate_limited, acct_file>>
proxyVars == <<rate_limited, proxy_file>>
taskVars == <<tasks, lock_held, lock_waiters>>
alertVars == <<upstream, last_alert_file, sent>>
histVars == <<tracking, markAge, firstMarkAge, acctMarkAge, got, outcome,
             notified>>
authVars == <<cookie_files, login_failed, expired, startup, acct_lock>>
hedgeyeVars == <<mainVars, schedVars, acctVars, proxyVars, taskVars, alertVars,
                 histVars, authVars>>
setVars == <<scraper, set_pc, processed, processed_file, posts, new_posts,
             seen_before, dispatched, unsaved, resent, torn, origin>>

EmptyMap == [p \in {} |-> 0]

\* A persisted file: missing, or holding data.
NoFile(empty) == [exists |-> FALSE, data |-> empty]
FileOf(v) == [exists |-> TRUE, data |-> v]

\* ---------------------------------------------------------- ProxyManager
\* A faulty expiry test: strictly more than 15 minutes instead of at least.
ExpiredProxies_Strict(rl) == {p \in DOMAIN rl : rl[p] > RateLimitSeconds}

\* get_next_proxy, lines 73-77: the entries whose stamp is 15 minutes old.
ExpiredProxies(rl) == {p \in DOMAIN rl : rl[p] >= RateLimitSeconds}

\* get_next_proxy, lines 79-80: the map with the expired entries deleted.
PrunedRateLimited(rl) == [p \in (DOMAIN rl) \ ExpiredProxies(rl) |-> rl[p]]

\* A faulty get_next_proxy that never rewrites the file.
PrunedProxyFile_NoSave(rl, file) == file

\* get_next_proxy, lines 85-86: the file is rewritten only when something expired.
PrunedProxyFile(rl, file) ==
  IF ExpiredProxies(rl) # {} THEN FileOf(PrunedRateLimited(rl)) ELSE file

\* A faulty filter that takes every proxy for available.
AvailableProxies_All(rl) == Proxies

\* get_next_proxy, lines 88-90, evaluated after the pruning.
AvailableProxies(rl) == {p \in Proxies : p \notin DOMAIN PrunedRateLimited(rl)}

\* mark_rate_limited: the proxy is stamped with the current time (age 0).
MarkedProxies(rl, proxy) ==
  [p \in (DOMAIN rl) \cup {proxy} |-> IF p = proxy THEN 0 ELSE rl[p]]

\* ProxyManager._load_rate_limited, lines 58-63: the map a new manager starts
\* with; the empty map when the file is missing.
LoadedProxies(file) == IF file.exists THEN file.data ELSE EmptyMap

\* Time passing by d seconds, seen from a map of stamps. An age of
\* RateLimitSeconds or more is only ever compared with RateLimitSeconds, so
\* ages saturate there.
Aged(rl, d) == [p \in DOMAIN rl |-> Min(rl[p] + d, RateLimitSeconds)]

AgedFile(file, d) == [file EXCEPT !.data = Aged(file.data, d)]

\* -------------------------------------------------------- AccountManager
\* A faulty filter that forgets the accounts that are currently running.
AvailableAccounts_IgnoreRunning(rl, running) == {a \in Accounts : a \notin rl}

\* get_available_accounts, lines 128-133.
AvailableAccounts(rl, running) ==
  {a \in Accounts : a \notin rl /\ a \notin running}

\* AccountManager._load_rate_limited, lines 116-120: the set a new manager
\* starts with; the empty set when the file is missing.
LoadedAccounts(file) == IF file.exists THEN file.data ELSE {}

\* A faulty mark_rate_limited that adds nothing.
MarkedAccounts_Forget(rl, email) == rl

\* AccountManager.mark_rate_limited, line 144.
MarkedAccounts(rl, email) == rl \cup {email}

\* random.sample(available, n): every ordering of every n-subset.
Samples(S, n) ==
  {s \in [1..n -> S] : \A i, j \in 1..n : i # j => s[i] # s[j]}

\* A faulty release_account that removes nothing.
Released_Keep(running, email) == running

\* release_account, lines 139-141.
Released(running, email) == running \ {email}

\* ------------------------------------------------------------ fetch tasks
Task(email, proxy, pc, alert) ==
  [email |-> email, proxy |-> proxy, pc |-> pc, alert |-> alert]

One(t) == SetToBag({t})

\* Every task that was created and has not finished.
SeqToBag(s) == [t \in Range(s) |-> Cardinality({i \in DOMAIN s : s[i] = t})]

InFlight == tasks (+) SeqToBag(lock_waiters)

\* Number of in-flight tasks among the tasks of S.
CountTasks(S) ==
  LET b == InFlight
      T == S \cap BagToSet(b)
  IN  IF T = {} THEN 0 ELSE BagCardinality([t \in T |-> b[t]])

NoTasks == BagToSet(tasks) = {} /\ lock_waiters = <<>>

\* A faulty test that takes every alert for new.
Novel_Always(stored, alert) == TRUE

\* process_account, line 405.
Novel(stored, alert) == stored = NoAlert \/ alert.title # stored.title

Bump(f, k) == [f EXCEPT ![k] = Min(f[k] + 1, SentCap)]

\* ---------------------------------------------------------------- history
Never == 0 - 1

\* got: no get_next_proxy call in the last step / the call raised / it returned p.
NoCall == [called |-> FALSE, proxy |-> {}]
Raised == [called |-> TRUE, proxy |-> {}]
Returned(p) == [called |-> TRUE, proxy |-> {p}]

\* outcome: no fetch ended in the last step / the fetch of task t ended with
\* kind: "rate_limited" (HTTP 429), "timeout", "no_markup" (None returned).
NoOutcome == [kind |-> "none", email |-> 0, proxy |-> 0]
Outcome(kind, t) == [kind |-> kind, email |-> t.email, proxy |-> t.proxy]

\* fetch_alert_details returns None: asyncio.TimeoutError (349-356), or the
\* page lacks the alert markup (326-333).
NoneKinds == {"timeout", "no_markup"}

OlderBy(age, d) == IF age = Never THEN Never ELSE Min(age + d, RateLimitSeconds)

\* The history of one step: the proxies and accounts marked in it, the
\* seconds that passed, whether the account marks made so far no longer count
\* (clear_rate_limits ran, or a new trading window opened), and the result of
\* get_next_proxy (NoCall when it was not called).
\* What a notifier call gives back: send_ws_message and send_telegram_message
\* are awaited for their completion only; a failed send ends the call with a
\* failure result, which the caller does not look at.
Results == {"ok", "failed"}

\* notified: no dispatch yet / the dispatch of task t, whose send_ws_message
\* ended with `ws` and whose send_telegram_message ended with `telegram`
\* ("none" while the call has not ended).
NoNotice == [email |-> 0, ws |-> "none", telegram |-> "none"]

Notice(t, ws, telegram) == [email |-> t.email, ws |-> ws, telegram |-> telegram]

TrackFetch(proxies, accounts, d, cleared, result, fetched) ==
  /\ tracking' = tracking
  /\ IF tracking
     THEN /\ markAge' =
               [p \in Proxies |-> IF p \in proxies THEN 0 ELSE OlderBy(markAge[p], d)]
          /\ firstMarkAge' =
               [p \in Proxies |->
                  IF p \in proxies
                  THEN IF p \in AvailableProxies(rate_limited) THEN 0 ELSE firstMarkAge[p]
                  ELSE OlderBy(firstMarkAge[p], d)]
          /\ acctMarkAge' =
               [a \in Accounts |->
                  IF a \in accounts THEN 0
                  ELSE IF cleared THEN Never ELSE OlderBy(acctMarkAge[a], d)]
          /\ got' = result
          /\ outcome' = fetched
     ELSE UNCHANGED <<markAge, firstMarkAge, acctMarkAge, got, outcome>>
  /\ UNCHANGED <<notified, authVars>>

\* The history of a step in which no fetch ended.
Track(proxies, accounts, d, cleared, result) ==
  TrackFetch(proxies, accounts, d, cleared, result, NoOutcome)

NoHistory == Track({}, {}, 0, FALSE, NoCall)

\* The history of a step in which a notifier call ended.
TrackNotice(n) ==
  /\ tracking' = tracking
  /\ UNCHANGED <<markAge, firstMarkAge, acctMarkAge, authVars>>
  /\ IF tracking
     THEN /\ got' = NoCall
          /\ outcome' = NoOutcome
          /\ notified' = n
     ELSE UNCHANGED <<got, outcome, notified>>

\* ------------------------------------------------------------------- Init
\* run_scraper of the set-variant scrapers is not running.
SetIdle ==
  /\ scraper = "hedgeye"
  /\ set_pc = "off"
  /\ processed = {}
  /\ processed_file = NoFile(<<>>)
  /\ posts = <<>>
  /\ new_posts = <<>>
  /\ seen_before = {}
  /\ dispatched = <<>>
  /\ unsaved = {}
  /\ resent = {}
  /\ torn = FALSE
  /\ origin = [first |-> {}, sent |-> {}]

Init ==
  /\ market = "closed"
  /\ main_pc = "sleep"
  /\ sched_pc = "off"
  /\ pending = <<>>
  /\ currently_running = {}
  /\ acct_rate_limited = {}
  /\ acct_file = NoFile({})
  /\ rate_limited = EmptyMap
  /\ proxy_file = NoFile(EmptyMap)
  /\ tasks = EmptyBag
  /\ lock_held = FALSE
  /\ lock_waiters = <<>>
  /\ upstream = 1
  /\ last_alert_file = NoAlert
  /\ sent = [k \in AlertIds |-> 0]
  /\ tracking = FALSE
  /\ markAge = [p \in Proxies |-> Never]
  /\ firstMarkAge = [p \in Proxies |-> Never]
  /\ acctMarkAge = [a \in Accounts |-> Never]
  /\ got = NoCall
  /\ outcome = NoOutcome
  /\ notified = NoNotice
  /\ cookie_files = Accounts
  /\ login_failed = {}
  /\ expired = {}
  /\ startup = Initialized
  /\ acct_lock = NoHolder
  /\ SetIdle

\* ------------------------------------------------------------ environment
\* The wall clock reaches the next window's open. The window is 08:00-15:00,
\* so ClosedGapSeconds have passed since the close: main is back in
\* sleep_until_market_open and every fetch task of the last window is over.
EnvOpen ==
  /\ market = "closed"
  /\ main_pc = "sleep"
  /\ NoTasks
  /\ market' = "open"
  /\ rate_limited' = Aged(rate_limited, ClosedGapSeconds)
  /\ proxy_file' = AgedFile(proxy_file, ClosedGapSeconds)
  /\ UNCHANGED <<main_pc, schedVars, acctVars, taskVars, alertVars>>
  /\ Track({}, {}, ClosedGapSeconds, TRUE, NoCall)
  /\ UNCHANGED setVars

\* The wall clock passes market_close_time.
EnvClose ==
  /\ market = "open"
  /\ main_pc = "monitor"
  /\ market' = "closed"
  /\ UNCHANGED <<main_pc, schedVars, acctVars, proxyVars, taskVars, alertVars>>
  /\ NoHistory
  /\ UNCHANGED setVars

\* TickSeconds pass: every stamp is that much older.
Tick ==
  /\ rate_limited' = Aged(rate_limited, TickSeconds)
  /\ proxy_file' = AgedFile(proxy_file, TickSeconds)
  /\ UNCHANGED <<mainVars, schedVars, acctVars, taskVars, alertVars>>
  /\ Track({}, {}, TickSeconds, FALSE, NoCall)
  /\ UNCHANGED setVars

\* The site replaces the alert it shows by a new one.
UpstreamChange ==
  /\ upstream < NAlerts
  /\ upstream' = upstream + 1
  /\ UNCHANGED <<mainVars, schedVars, acctVars, proxyVars, taskVars,
                 last_alert_file, sent>>
  /\ NoHistory
  /\ UNCHANGED setVars

\* ------------------------------------------------------------------- main
\* Lines 561-569: sleep_until_market_open returns, the scheduler task is created.
MainOpen ==
  /\ main_pc = "sleep"
  /\ market = "open"
  /\ main_pc' = "monitor"
  /\ sched_pc' = "top"
  /\ pending' = <<>>
  /\ UNCHANGED <<market, acctVars, proxyVars, taskVars, alertVars>>
  /\ NoHistory
  /\ UNCHANGED setVars

\* Lines 571-578: a 10 s check finds the close time passed; the scheduler task
\* is cancelled at the sleep it is suspended in. Fetch tasks are not cancelled.
MainCancel ==
  /\ main_pc = "monitor"
  /\ market = "closed"
  /\ main_pc' = "closing"
  /\ sched_pc' = "off"
  /\ pending' = <<>>
  /\ UNCHANGED <<market, acctVars, proxyVars, taskVars, alertVars>>
  /\ NoHistory
  /\ UNCHANGED setVars

\* A faulty clear that leaves the map as it is.
ProxyCleared_Nothing == rate_limited

\* ProxyManager.clear_rate_limits, lines 102-106.
ProxyCleared == EmptyMap

\* AccountManager.clear_rate_limits, lines 147-152: the set that is left in
\* rate_limited and in currently_running.
AccountCleared == {}

\* Lines 585-586, after the cancelled scheduler task has finished.
MainClear ==
  /\ main_pc = "closing"
  /\ rate_limited' = ProxyCleared
  /\ proxy_file' = NoFile(EmptyMap)
  /\ acct_rate_limited' = AccountCleared
  /\ currently_running' = AccountCleared
  /\ acct_file' = NoFile({})
  /\ main_pc' = "sleep"
  /\ UNCHANGED <<market, schedVars, taskVars, alertVars>>
  /\ Track({}, {}, 0, TRUE, NoCall)
  /\ UNCHANGED setVars

\* -------------------------------------------------------------- scheduler
\* Line 482: the scheduler wakes from the sleep that ended the last round (or
\* starts) and asks for AccountsPerRound accounts; lines 483-486 when it gets none.
SchedAcquire ==
  /\ sched_pc \in {"top", "idle", "backoff"}
  /\ LET available == AvailableAccounts(acct_rate_limited, currently_running)
         n == Min(AccountsPerRound, Cardinality(available))
     IN  \E selected \in Samples(available, n) :
           /\ currently_running' = currently_running \cup Range(selected)
           /\ pending' = selected
           /\ sched_pc' = IF selected = <<>> THEN "idle" ELSE "pace"
  /\ UNCHANGED <<mainVars, acct_rate_limited, acct_file, proxyVars, taskVars,
                 alertVars>>
  /\ NoHistory
  /\ UNCHANGED setVars

\* Lines 489-501: the 0.8 s pacing sleep is over, get_next_proxy returns a proxy
\* and the fetch task of the next account of the round is created; line 503
\* after the last one. The task issues its request as soon as it first runs.
SchedLaunch ==
  /\ sched_pc = "pace"
  /\ pending # <<>>
  /\ \E proxy \in AvailableProxies(rate_limited) :
       /\ tasks' = tasks (+) One(Task(Head(pending), proxy, "fetch", NoAlert))
       /\ Track({}, {}, 0, FALSE, Returned(proxy))
  /\ rate_limited' = PrunedRateLimited(rate_limited)
  /\ proxy_file' = PrunedProxyFile(rate_limited, proxy_file)
  /\ pending' = Tail(pending)
  /\ sched_pc' = IF Tail(pending) = <<>> THEN "top" ELSE "pace"
  /\ UNCHANGED <<mainVars, acctVars, lock_held, lock_waiters, alertVars>>
  /\ UNCHANGED setVars

\* Lines 491-493 and 505-507: get_next_proxy raises "No available proxies"; the
\* except clause of the loop logs, sleeps 1 s and starts the next round.
SchedNoProxy ==
  /\ sched_pc = "pace"
  /\ pending # <<>>
  /\ AvailableProxies(rate_limited) = {}
  /\ rate_limited' = PrunedRateLimited(rate_limited)
  /\ proxy_file' = PrunedProxyFile(rate_limited, proxy_file)
  /\ pending' = <<>>
  /\ sched_pc' = "backoff"
  /\ UNCHANGED <<mainVars, acctVars, taskVars, alertVars>>
  /\ Track({}, {}, 0, FALSE, Raised)
  /\ UNCHANGED setVars

\* ------------------------------------------------------------ fetch tasks
\* process_account_with_release, lines 522-523: the task is over.
Finish(t) ==
  /\ tasks' = tasks (-) One(t)
  /\ currently_running' = Released(currently_running, t.email)

\* fetch_alert_details, lines 312-322: the site renders the page for the
\* request; the response then travels back to the task.
TaskServe(t) ==
  /\ t.pc = "fetch"
  /\ t.email \in cookie_files
  /\ tasks' = (tasks (-) One(t)) (+) One([t EXCEPT !.pc = "resp", !.alert = Feed(upstream)])
  /\ UNCHANGED <<mainVars, schedVars, acctVars, proxyVars, lock_held,
                 lock_waiters, alertVars>>
  /\ NoHistory
  /\ UNCHANGED setVars

\* fetch_alert_details returns None (timeout, missing markup, any error but a
\* 429), lines 326-333 and 349-361; process_account returns at line 389. A
\* timeout that strikes while the response travels has the same effect as one
\* that strikes before the site answers, so it is taken from "fetch" only.
TaskNone(t) ==
  /\ t.pc = "fetch"
  /\ t.email \in cookie_files
  /\ Finish(t)
  /\ UNCHANGED <<mainVars, schedVars, acct_rate_limited, acct_file, proxyVars,
                 lock_held, lock_waiters, alertVars>>
  /\ \E kind \in NoneKinds : TrackFetch({}, {}, 0, FALSE, NoCall, Outcome(kind, t))
  /\ UNCHANGED setVars

\* The response is a 429: lines 320-321 and 358-359 raise, lines 468-471 mark
\* the proxy and the account and persist both, then the account is released.
TaskRateLimited(t) ==
  /\ t.pc = "fetch"
  /\ t.email \in cookie_files
  /\ rate_limited' = MarkedProxies(rate_limited, t.proxy)
  /\ proxy_file' = FileOf(rate_limited')
  /\ acct_rate_limited' = MarkedAccounts(acct_rate_limited, t.email)
  /\ acct_file' = FileOf(acct_rate_limited')
  /\ Finish(t)
  /\ UNCHANGED <<mainVars, schedVars, lock_held, lock_waiters, alertVars>>
  /\ TrackFetch({t.proxy}, {t.email}, 0, FALSE, NoCall, Outcome("rate_limited", t))
  /\ UNCHANGED setVars

\* A faulty lock that everyone acquires at once.
LockFree_Always == TRUE

\* asyncio.Lock.acquire on last_alert_lock succeeds at once: the lock is free
\* and nobody is queued for it.
LockFree == ~lock_held /\ lock_waiters = <<>>

\* Lines 399-429 for a task that has just acquired last_alert_lock: the stored
\* record is read; a novel alert is handed to send_ws_message (the task then
\* waits for it holding the lock); otherwise the lock is released and the task
\* is over. rest is the bag of the other tasks.
EnterCritical(t, rest) ==
  IF Novel(last_alert_file, t.alert)
  THEN /\ lock_held' = TRUE
       /\ tasks' = rest (+) One([t EXCEPT !.pc = "send_ws"])
       /\ sent' = Bump(sent, t.alert.title)
       /\ UNCHANGED currently_running
  ELSE /\ lock_held' = FALSE
       /\ tasks' = rest
       /\ sent' = sent
       /\ currently_running' = Released(currently_running, t.email)

\* Line 399 reached with the response parsed (lines 324-347, 387-397).
TaskLock(t) ==
  /\ t.pc = "resp"
  /\ IF LockFree
     THEN /\ EnterCritical(t, tasks (-) One(t))
          /\ UNCHANGED lock_waiters
     ELSE /\ lock_waiters' = Append(lock_waiters, [t EXCEPT !.pc = "wait"])
          /\ tasks' = tasks (-) One(t)
          /\ UNCHANGED <<lock_held, sent, currently_running>>
  /\ UNCHANGED <<mainVars, schedVars, acct_rate_limited, acct_file, proxyVars,
                 upstream, last_alert_file>>
  /\ NoHistory
  /\ UNCHANGED setVars

\* The released lock passes to the first task queued for it.
TaskWake ==
  /\ ~lock_held
  /\ lock_waiters # <<>>
  /\ lock_waiters' = Tail(lock_waiters)
  /\ EnterCritical(Head(lock_waiters), tasks)
  /\ UNCHANGED <<mainVars, schedVars, acct_rate_limited, acct_file, proxyVars,
                 upstream, last_alert_file>>
  /\ NoHistory
  /\ UNCHANGED setVars

NextSend_StopOnFailure(result) == IF result = "ok" THEN "send_tg" ELSE "stopped"

\* Lines 421-442: the statement after the awaited send_ws_message is the
\* send_telegram_message, whatever the first call gave back.
NextSend(result) == "send_tg"

\* Lines 421-442: send_ws_message is over, send_telegram_message is called.
TaskWsSent(t) ==
  /\ t.pc = "send_ws"
  /\ \E r \in Results :
       /\ tasks' = (tasks (-) One(t)) (+) One([t EXCEPT !.pc = NextSend(r)])
       /\ TrackNotice(Notice(t, r, "none"))
  /\ UNCHANGED <<mainVars, schedVars, acctVars, proxyVars, lock_held,
                 lock_waiters, alertVars>>
  /\ UNCHANGED setVars

\* Lines 444-453: the record written to LAST_ALERT_FILE.
Committed(alert) == [title |-> alert.title, price |-> alert.price]

\* Lines 438-458: send_telegram_message is over, the record is written, the
\* lock is released and the task is over.
TaskCommit(t) ==
  /\ t.pc = "send_tg"
  /\ last_alert_file' = Committed(t.alert)
  /\ lock_held' = FALSE
  /\ Finish(t)
  /\ UNCHANGED <<mainVars, schedVars, acct_rate_limited, acct_file, proxyVars,
                 lock_waiters, upstream, sent>>
  /\ \E r \in Results : TrackNotice(Notice(t, notified.ws, r))
  /\ UNCHANGED setVars

Next ==
  \/ EnvOpen
  \/ EnvClose
  \/ Tick
  \/ UpstreamChange
  \/ MainOpen
  \/ MainCancel
  \/ MainClear
  \/ SchedAcquire
  \/ SchedLaunch
  \/ SchedNoProxy
  \/ TaskWake
  \/ \E t \in BagToSet(tasks) : TaskServe(t)
  \/ \E t \in BagToSet(tasks) : TaskNone(t)
  \/ \E t \in BagToSet(tasks) : TaskRateLimited(t)
  \/ \E t \in BagToSet(tasks) : TaskLock(t)
  \/ \E t \in BagToSet(tasks) : TaskWsSent(t)
  \/ \E t \in BagToSet(tasks) : TaskCommit(t)

\* The hedgeye scraper: controller, scheduler and fetch tasks.
Spec == Init /\ [][Next]_vars

\* The two resource pools under the controller, the scheduler and the clock,
\* with the history of the marks recorded. A fetch task is followed to the end
\* of its fetch only: to the pools a task that goes on to dispatch looks like
\* one whose fetch returned None, it releases its account when it is over.
InitPool ==
  /\ market = "closed"
  /\ main_pc = "sleep"
  /\ sched_pc = "off"
  /\ pending = <<>>
  /\ currently_running = {}
  /\ acct_rate_limited = {}
  /\ acct_file = NoFile({})
  /\ rate_limited = EmptyMap
  /\ proxy_file = NoFile(EmptyMap)
  /\ tasks = EmptyBag
  /\ lock_held = FALSE
  /\ lock_waiters = <<>>
  /\ upstream = 1
  /\ last_alert_file = NoAlert
  /\ sent = [k \in AlertIds |-> 0]
  /\ tracking = TRUE
  /\ markAge = [p \in Proxies |-> Never]
  /\ firstMarkAge = [p \in Proxies |-> Never]
  /\ acctMarkAge = [a \in Accounts |-> Never]
  /\ got = NoCall
  /\ outcome = NoOutcome
  /\ notified = NoNotice
  /\ cookie_files = Accounts
  /\ login_failed = {}
  /\ expired = {}
  /\ startup = Initialized
  /\ acct_lock = NoHolder
  /\ SetIdle

NextPool ==
  \/ EnvOpen
  \/ EnvClose
  \/ Tick
  \/ MainOpen
  \/ MainCancel
  \/ MainClear
  \/ SchedAcquire
  \/ SchedLaunch
  \/ SchedNoProxy
  \/ \E t \in BagToSet(tasks) : TaskNone(t)
  \/ \E t \in BagToSet(tasks) : TaskRateLimited(t)

SpecPool == InitPool /\ [][NextPool]_vars

\* Within one trading window: the scheduler and its fetch tasks (followed to
\* the end of their fetch) with the clock running and the window staying open.
\* The event loop runs every coroutine that is ready and every response or
\* timeout arrives (the request has a 3 s total timeout), hence the fairness.
InitWindow ==
  /\ market = "open"
  /\ main_pc = "monitor"
  /\ sched_pc = "top"
  /\ pending = <<>>
  /\ currently_running = {}
  /\ acct_rate_limited = {}
  /\ acct_file = NoFile({})
  /\ rate_limited = EmptyMap
  /\ proxy_file = NoFile(EmptyMap)
  /\ tasks = EmptyBag
  /\ lock_held = FALSE
  /\ lock_waiters = <<>>
  /\ upstream = 1
  /\ last_alert_file = NoAlert
  /\ sent = [k \in AlertIds |-> 0]
  /\ tracking = FALSE
  /\ markAge = [p \in Proxies |-> Never]
  /\ firstMarkAge = [p \in Proxies |-> Never]
  /\ acctMarkAge = [a \in Accounts |-> Never]
  /\ got = NoCall
  /\ outcome = NoOutcome
  /\ notified = NoNotice
  /\ cookie_files = Accounts
  /\ login_failed = {}
  /\ expired = {}
  /\ startup = Initialized
  /\ acct_lock = NoHolder
  /\ SetIdle

\* The fetch of the task of account a comes to its end.
TaskEnds(a) ==
  \E t \in BagToSet(tasks) : t.email = a /\ (TaskNone(t) \/ TaskRateLimited(t))

NextWindow ==
  \/ Tick
  \/ SchedAcquire
  \/ SchedLaunch
  \/ SchedNoProxy
  \/ \E t \in BagToSet(tasks) : TaskNone(t)
  \/ \E t \in BagToSet(tasks) : TaskRateLimited(t)

FairWindow ==
  /\ InitWindow
  /\ [][NextWindow]_vars
  /\ WF_vars(Tick)
  /\ WF_vars(SchedAcquire)
  /\ WF_vars(SchedLaunch)
  /\ WF_vars(SchedNoProxy)
  /\ \A a \in Accounts : WF_vars(TaskEnds(a))

\* ------------------------------------------- set-variant scrapers (run_scraper)
Ids == 1..NIds

\* The item number n of the upstream feed: a post of the bearcave archive, a
\* trade of the ibd trade list.
Item(which, n) ==
  IF which = "ibd" THEN [id |-> n] ELSE [canonical_url |-> "u" \o ToString(n)]

\* A faulty identifier that is the same for every item.
ItemKey_Same(which, item) == "seen"

\* The identifier kept in the seen set: post["canonical_url"], str(trade["id"]).
ItemKey(which, item) ==
  IF which = "ibd" THEN ToString(item.id) ELSE item.canonical_url

\* The lists of well-formed items a fetch can return.
FetchedLists(which) ==
  UNION {[1..n -> {Item(which, i) : i \in Ids}] : n \in 0..MaxLen}

\* A faulty filter that lets every fetched item through.
NewPosts_NoFilter(which, fetched, seen) == fetched

\* The field that holds the identifier of an item.
KeyField(which) == IF which = "ibd" THEN "id" ELSE "canonical_url"

HasKey(which, item) == KeyField(which) \in DOMAIN item

\* The list comprehension new_posts / new_trades. bearcave 247 tests
\* post.get("canonical_url") first; ibd 195 reads trade["id"] with no test.
NewPosts(which, fetched, seen) ==
  SelectSeq(fetched, LAMBDA item :
                       /\ which = "bearcave" => HasKey(which, item)
                       /\ ItemKey(which, item) \notin seen)

\* json.dump(list(urls)): the elements of the set in any order.
SavedLists(seen) == Samples(seen, Cardinality(seen))

\* A faulty start that ignores the file.
Loaded_Nothing(file) == {}

\* load_processed_urls / load_processed_trades: set(json.load(f)), the empty
\* set when the file is missing.
Loaded(file) == IF file.exists THEN Range(file.data) ELSE {}

\* The hedgeye scraper is not running.
HedgeyeIdle ==
  /\ market = "closed"
  /\ main_pc = "sleep"
  /\ sched_pc = "off"
  /\ pending = <<>>
  /\ currently_running = {}
  /\ acct_rate_limited = {}
  /\ acct_file = NoFile({})
  /\ rate_limited = EmptyMap
  /\ proxy_file = NoFile(EmptyMap)
  /\ tasks = EmptyBag
  /\ lock_held = FALSE
  /\ lock_waiters = <<>>
  /\ upstream = 1
  /\ last_alert_file = NoAlert
  /\ sent = [k \in AlertIds |-> 0]
  /\ tracking = FALSE
  /\ markAge = [p \in Proxies |-> Never]
  /\ firstMarkAge = [p \in Proxies |-> Never]
  /\ acctMarkAge = [a \in Accounts |-> Never]
  /\ got = NoCall
  /\ outcome = NoOutcome
  /\ notified = NoNotice
  /\ cookie_files = Accounts
  /\ login_failed = {}
  /\ expired = {}
  /\ startup = Initialized
  /\ acct_lock = NoHolder

\* run_scraper starts: the seen set is loaded from the file an earlier run
\* left (any saved list of identifiers), or is empty when there is no file.
InitSet ==
  /\ HedgeyeIdle
  /\ scraper \in {"bearcave", "ibd"}
  /\ \/ processed_file = NoFile(<<>>)
     \/ \E S \in SUBSET {ItemKey(scraper, Item(scraper, i)) : i \in Ids} :
          \E list \in SavedLists(S) : processed_file = FileOf(list)
  /\ processed = Loaded(processed_file)
  /\ set_pc = "poll"
  /\ posts = <<>>
  /\ new_posts = <<>>
  /\ seen_before = processed
  /\ dispatched = <<>>
  /\ unsaved = {}
  /\ resent = {}
  /\ torn = FALSE
  /\ origin = [first |-> Loaded(processed_file), sent |-> {}]

\* bearcave 242-251, ibd 190-198: the fetch returns a list and the new items
\* are selected from it.
SetPoll ==
  /\ set_pc = "poll"
  /\ \E fetched \in FetchedLists(scraper) :
       /\ posts' = fetched
       /\ new_posts' = NewPosts(scraper, fetched, processed)
  /\ set_pc' = IF new_posts' = <<>> THEN "sleep" ELSE "send"
  /\ seen_before' = processed
  /\ dispatched' = <<>>
  /\ UNCHANGED <<scraper, processed, processed_file, unsaved, resent, torn,
                 origin, hedgeyeVars>>

\* bearcave 254-258, ibd 199-201: the next new item is sent to the notifiers
\* and its identifier is added to the seen set.
SetSend ==
  /\ set_pc = "send"
  /\ dispatched' = Append(dispatched, Head(new_posts))
  /\ processed' = processed \cup {ItemKey(scraper, Head(new_posts))}
  /\ new_posts' = Tail(new_posts)
  /\ set_pc' = IF Tail(new_posts) = <<>> THEN "save" ELSE "send"
  /\ resent' = resent \cup ({ItemKey(scraper, Head(new_posts))} \cap unsaved)
  /\ origin' = [origin EXCEPT !.sent = @ \cup {Head(new_posts)}]
  /\ UNCHANGED <<scraper, processed_file, posts, seen_before, unsaved, torn,
                 hedgeyeVars>>

\* bearcave 260, ibd 202: the seen set is written out after the last new item.
SetSave ==
  /\ set_pc = "save"
  /\ \E list \in SavedLists(processed) : processed_file' = FileOf(list)
  /\ set_pc' = "sleep"
  /\ UNCHANGED <<scraper, processed, posts, new_posts, seen_before, dispatched,
                 unsaved, resent, torn,
                 origin, hedgeyeVars>>

\* bearcave 264, ibd 206: the sleep of CHECK_INTERVAL is over.
SetSleep ==
  /\ set_pc = "sleep"
  /\ set_pc' = "poll"
  /\ UNCHANGED <<scraper, processed, processed_file, posts, new_posts,
                 seen_before, dispatched, unsaved, resent, torn,
                 origin, hedgeyeVars>>

NextSet ==
  \/ SetPoll
  \/ SetSend
  \/ SetSave
  \/ SetSleep

\* The poll loop of the bearcave and ibd scrapers within one trading window.
SpecSet == InitSet /\ [][NextSet]_vars

\* The process dies (a crash, or an exception that leaves run_scraper: nothing
\* in the loop catches one) and is started again: run_scraper loads the seen
\* set from the file. What was sent and added since the last save is lost.
SetCrash ==
  /\ set_pc \in {"poll", "send", "save", "sleep"}
  /\ unsaved' = unsaved \cup (processed \ Loaded(processed_file))
  /\ processed' = Loaded(processed_file)
  /\ set_pc' = "poll"
  /\ posts' = <<>>
  /\ new_posts' = <<>>
  /\ seen_before' = processed'
  /\ dispatched' = <<>>
  /\ UNCHANGED <<scraper, processed_file, resent, torn, origin, hedgeyeVars>>

NextSetCrash ==
  \/ SetPoll
  \/ SetSend
  \/ SetSave
  \/ SetSleep
  \/ SetCrash

\* The poll loop with crashes and restarts of the process.
SpecSetCrash == InitSet /\ [][NextSetCrash]_vars

\* ------------------------------------------------ the critical section alone
Prices == 1..NPrices

\* What fetch_alert_details can return for the alert on show: any title with
\* any live price.
Alerts == [title : AlertIds, price : Prices]

\* Two fetch tasks hold a parsed response each and are about to reach
\* last_alert_lock; LAST_ALERT_FILE is missing or holds any committed record.
InitDetect ==
  /\ market = "open"
  /\ main_pc = "monitor"
  /\ sched_pc = "idle"
  /\ pending = <<>>
  /\ currently_running = {1, 2}
  /\ acct_rate_limited = {}
  /\ acct_file = NoFile({})
  /\ rate_limited = EmptyMap
  /\ proxy_file = NoFile(EmptyMap)
  /\ \E a1, a2 \in Alerts :
       tasks = One(Task(1, 1, "resp", a1)) (+) One(Task(2, 2, "resp", a2))
  /\ lock_held = FALSE
  /\ lock_waiters = <<>>
  /\ upstream = 1
  /\ last_alert_file \in {NoAlert} \cup {Committed(a) : a \in Alerts}
  /\ sent = [k \in AlertIds |-> 0]
  /\ tracking = TRUE
  /\ markAge = [p \in Proxies |-> Never]
  /\ firstMarkAge = [p \in Proxies |-> Never]
  /\ acctMarkAge = [a \in Accounts |-> Never]
  /\ got = NoCall
  /\ outcome = NoOutcome
  /\ notified = NoNotice
  /\ cookie_files = Accounts
  /\ login_failed = {}
  /\ expired = {}
  /\ startup = Initialized
  /\ acct_lock = NoHolder
  /\ SetIdle

NextDetect ==
  \/ TaskWake
  \/ \E t \in BagToSet(tasks) : TaskLock(t)
  \/ \E t \in BagToSet(tasks) : TaskWsSent(t)
  \/ \E t \in BagToSet(tasks) : TaskCommit(t)

SpecDetect == InitDetect /\ [][NextDetect]_vars

\* ================================================================= claims
TasksOf(email) == CountTasks({t \in BagToSet(InFlight) : t.email = email})

UsersOf(proxy) == CountTasks({t \in BagToSet(InFlight) : t.proxy = proxy})

Dispatchers == {t \in BagToSet(tasks) : t.pc \in {"send_ws", "send_tg"}}

DispatchCount == CountTasks(Dispatchers)

\* The in-flight tasks that hold alert k and have not reached the critical section.
NotYet(k) ==
  CountTasks({t \in BagToSet(InFlight) : t.pc \in {"resp", "wait"} /\ t.alert.title = k})

\* A step of the scheduler's get_available_accounts call: the loop leaves the
\* call with accounts to launch ("pace") or with none ("idle"). A call that
\* returns none to a loop that was idle already changes nothing.
AcquireStep ==
  /\ sched_pc \in {"top", "idle", "backoff"}
  /\ sched_pc' = "pace" \/ (sched_pc' = "idle" /\ sched_pc # "idle")

C1_State ==
  /\ \A e \in Accounts : TasksOf(e) <= 1
  /\ \A e \in Range(pending) : TasksOf(e) = 0 /\ e \in currently_running
  /\ \A i, j \in DOMAIN pending : i # j => pending[i] # pending[j]

C1_Call ==
  AcquireStep =>
    LET free == {a \in Accounts : a \notin currently_running /\ a \notin acct_rate_limited}
    IN  /\ Range(pending') \cap currently_running = {}
        /\ Range(pending') \subseteq free
        /\ Len(pending') = Min(AccountsPerRound, Cardinality(free))
        /\ currently_running' = currently_running \cup Range(pending')

\* C1: no account is held by two in-flight fetch tasks at once, nor by a task
\* and by the round that is being launched; a get_available_accounts call
\* returns no account that is in currently_running, and returns
\* min(requested, free) of the free accounts, none when none is free.
C1_NoDoubleCheckout == []C1_State /\ [][C1_Call]_vars

\* C1 witness: every account is checked out by an in-flight task and the
\* scheduler's call has just returned no account.
C1_Witness ==
  /\ sched_pc = "idle"
  /\ currently_running = Accounts
  /\ \A e \in Accounts : TasksOf(e) = 1

C2_State ==
  /\ DispatchCount <= 1
  /\ \A t \in Dispatchers : lock_held /\ Novel(last_alert_file, t.alert)

C2_Enter ==
  \A k \in AlertIds :
    NotYet(k)' < NotYet(k) =>
      IF last_alert_file # NoAlert /\ last_alert_file.title = k
      THEN /\ sent' = sent
           /\ last_alert_file' = last_alert_file
           /\ DispatchCount' = 0
      ELSE /\ sent' = [sent EXCEPT ![k] = Min(sent[k] + 1, SentCap)]
           /\ last_alert_file' = last_alert_file
           /\ DispatchCount = 0
           /\ \E t \in Dispatchers' : t.pc = "send_ws" /\ t.alert.title = k

C2_Write ==
  last_alert_file' # last_alert_file =>
    \E t \in Dispatchers :
      /\ t.pc = "send_tg"
      /\ last_alert_file' = [title |-> t.alert.title, price |-> t.alert.price]
      /\ DispatchCount' = 0
      /\ sent' = sent

\* C2: of the tasks that fetched the same new alert, the one that enters the
\* last_alert_lock critical section while the stored record differs sends the
\* alert and writes the record, holding the lock from the read to the write;
\* a task that enters once the record holds that alert sends nothing and
\* writes nothing; never are two tasks dispatching at once.
C2_IdempotentUnderRace == []C2_State /\ [][C2_Enter /\ C2_Write]_vars

\* C2 witness: one task has dispatched and committed alert k, a second task
\* that fetched the same alert k is first in the queue for the lock.
C2_Witness ==
  /\ ~lock_held
  /\ lock_waiters # <<>>
  /\ last_alert_file # NoAlert
  /\ Head(lock_waiters).alert.title = last_alert_file.title
  /\ sent[last_alert_file.title] = 1

\* C3: each alert is sent to the notifiers at most once over the whole run.
C3_AtMostOnce == \A k \in AlertIds : sent[k] <= 1

C5_CancellationSafety ==
  (main_pc = "sleep" /\ NoTasks) =>
    /\ currently_running = {}
    /\ acct_rate_limited = {}
    /\ rate_limited = EmptyMap

\* C6: a fetch is issued (a fetch task starts) only while the window is open.
C6_WindowGating ==
  [][BagCardinality(InFlight') > BagCardinality(InFlight) => market = "open"]_vars

C8_AccountExpiry ==
  \A a \in Accounts :
    (market = "open" /\ acctMarkAge[a] >= RateLimitSeconds) => a \notin acct_rate_limited

\* C9: no proxy is in use by two in-flight fetch tasks at once.
C9_ProxyExclusive == \A p \in Proxies : UsersOf(p) <= 1

\* The indices of the items of the fetched list whose identifier was not seen.
FreshAt == {i \in DOMAIN posts : ItemKey(scraper, posts[i]) \notin seen_before}

\* The j-th smallest index of FreshAt.
FreshIndex(j) == CHOOSE i \in FreshAt : Cardinality({k \in FreshAt : k <= i}) = j


\* An item without its identifier field.
NoIdentifier == [title |-> "untitled"]

\* The item number n without the field the dispatch path reads first:
\* post_data["post_date"] (bearcave 176), trade["stockSymbol"] (ibd 142).
Incomplete(which, n) ==
  IF which = "ibd"
  THEN [id |-> n, lacks |-> "stockSymbol"]
  ELSE [canonical_url |-> "u" \o ToString(n), lacks |-> "post_date"]

Readable(item) == "lacks" \notin DOMAIN item

\* The lists a fetch can return when the upstream sends malformed items too.
MixedLists(which) ==
  UNION {[1..n -> {Item(which, i) : i \in Ids}
                    \cup {Incomplete(which, i) : i \in Ids}
                    \cup {NoIdentifier}] : n \in 0..MaxLen}

\* bearcave 242-251, ibd 190-198 with any list. In ibd, trade["id"] of an item
\* without an id raises KeyError inside the comprehension; no handler is on the
\* way up to main (ibd 211-218), which logs and calls sys.exit(1).
MalPoll ==
  /\ set_pc = "poll"
  /\ \E fetched \in MixedLists(scraper) :
       /\ posts' = fetched
       /\ IF scraper = "ibd" /\ \E i \in DOMAIN fetched : ~HasKey(scraper, fetched[i])
          THEN /\ new_posts' = <<>>
               /\ set_pc' = "exited"
          ELSE /\ new_posts' = NewPosts(scraper, fetched, processed)
               /\ set_pc' = IF new_posts' = <<>> THEN "sleep" ELSE "send"
  /\ seen_before' = processed
  /\ dispatched' = <<>>
  /\ UNCHANGED <<scraper, processed, processed_file, unsaved, resent, torn,
                 origin, hedgeyeVars>>

\* bearcave 254-258, ibd 199-201 with any item: send_to_telegram reads the
\* fields of the item with [] before it sends anything (bearcave 176-178, ibd
\* 142); a missing one raises KeyError, which leaves run_scraper and ends the
\* process (bearcave 271-278, ibd 211-218). Nothing is added or saved.
MalSend ==
  /\ set_pc = "send"
  /\ IF Readable(Head(new_posts))
     THEN SetSend
     ELSE /\ set_pc' = "exited"
          /\ UNCHANGED <<scraper, processed, processed_file, posts, new_posts,
                         seen_before, dispatched, unsaved, resent, torn,
                 origin, hedgeyeVars>>

NextMalformed ==
  \/ MalPoll
  \/ MalSend
  \/ SetSave
  \/ SetSleep

\* The poll loop when the upstream may send malformed items.
SpecMalformed == InitSet /\ [][NextMalformed]_vars


\* The cookie file of account a is gone (removed from data/hedgeye_cookies)
\* while no task of the account runs: load_cookies (240-245) will return None.
CookiesLost(a) ==
  /\ a \in cookie_files
  /\ \A t \in BagToSet(InFlight) : t.email # a
  /\ cookie_files' = cookie_files \ {a}
  /\ expired' = expired \ {a}
  /\ UNCHANGED <<mainVars, schedVars, acctVars, proxyVars, taskVars, alertVars,
                 histVars, login_failed, startup, acct_lock, setVars>>

\* The site ends the session of account a while no task of the account runs:
\* the cookies in the file would no longer pass the probe of
\* validate_credentials (252-259).
SessionExpires(a) ==
  /\ a \in cookie_files \ expired
  /\ \A t \in BagToSet(InFlight) : t.email # a
  /\ expired' = expired \cup {a}
  /\ UNCHANGED <<mainVars, schedVars, acctVars, proxyVars, taskVars, alertVars,
                 histVars, cookie_files, login_failed, startup, acct_lock, setVars>>

\* Lines 373-382, login 187-225 succeeds: the cookies are saved and the task
\* goes on to its fetch.
TaskLoginOk(t) ==
  /\ t.pc = "fetch"
  /\ t.email \notin cookie_files
  /\ cookie_files' = cookie_files \cup {t.email}
  /\ expired' = expired \ {t.email}
  /\ UNCHANGED <<mainVars, schedVars, acctVars, proxyVars, taskVars, alertVars,
                 histVars, login_failed, startup, acct_lock, setVars>>

\* Lines 373-385, login returns None: process_account returns, and
\* process_account_with_release (522-523) releases the account. Nothing
\* else is recorded about the account.
TaskLoginFailed(t) ==
  /\ t.pc = "fetch"
  /\ t.email \notin cookie_files
  /\ Finish(t)
  /\ login_failed' = login_failed \cup {t.email}
  /\ UNCHANGED <<mainVars, schedVars, acct_rate_limited, acct_file, proxyVars,
                 lock_held, lock_waiters, alertVars, histVars, cookie_files,
                 expired, startup, acct_lock, setVars>>

NextAuth ==
  \/ SchedAcquire
  \/ SchedLaunch
  \/ \E a \in Accounts : CookiesLost(a)
  \/ \E a \in Accounts : SessionExpires(a)
  \/ \E t \in BagToSet(tasks) : TaskLoginOk(t)
  \/ \E t \in BagToSet(tasks) : TaskLoginFailed(t)
  \/ \E t \in BagToSet(tasks) : TaskNone(t)

\* One trading window in which cookie files can disappear and sessions can
\* expire: scheduler, logins and fetches that return None.
SpecAuth == InitWindow /\ [][NextAuth]_vars


\* s is the beginning of list.
IsPrefix(s, list) ==
  Len(s) <= Len(list) /\ \A i \in DOMAIN s : s[i] = list[i]

\* save_processed_urls / save_processed_trades, bearcave 71 and ibd 48:
\* open(file, "w") creates the file or cuts the existing one to length 0
\* before anything is written.
WriteOpen ==
  /\ set_pc = "save"
  /\ processed_file' = FileOf(<<>>)
  /\ torn' = TRUE
  /\ set_pc' = "writing"
  /\ UNCHANGED <<scraper, processed, posts, new_posts, seen_before, dispatched,
                 unsaved, resent, origin, hedgeyeVars>>

\* bearcave 72, ibd 49: json.dump writes the list piece by piece into the
\* buffer of the file object, which is written out whenever it is full; the
\* file then holds a beginning of the document.
WriteFlush ==
  /\ set_pc = "writing"
  /\ \E list \in SavedLists(processed) :
       \E k \in 1..(Len(list) - 1) :
         /\ Len(processed_file.data) < k
         /\ IsPrefix(processed_file.data, list)
         /\ processed_file' = FileOf(SubSeq(list, 1, k))
  /\ UNCHANGED <<scraper, set_pc, processed, posts, new_posts, seen_before,
                 dispatched, unsaved, resent, torn, origin, hedgeyeVars>>

\* The with block ends: the rest of the buffer is written and the file is
\* closed; the document is complete.
WriteClose ==
  /\ set_pc = "writing"
  /\ \E list \in SavedLists(processed) :
       /\ IsPrefix(processed_file.data, list)
       /\ processed_file' = FileOf(list)
  /\ torn' = FALSE
  /\ set_pc' = "sleep"
  /\ UNCHANGED <<scraper, processed, posts, new_posts, seen_before, dispatched,
                 unsaved, resent, origin, hedgeyeVars>>

\* The process dies during the write and is started again: json.load of a
\* file that is cut short raises json.JSONDecodeError, load_processed_urls /
\* load_processed_trades catch FileNotFoundError only (bearcave 62-67, ibd
\* 39-44), and the error ends run_scraper and the process.
WriteCrash ==
  /\ set_pc = "writing"
  /\ set_pc' = "exited"
  /\ posts' = <<>>
  /\ new_posts' = <<>>
  /\ dispatched' = <<>>
  /\ UNCHANGED <<scraper, processed, processed_file, seen_before, unsaved, resent,
                 torn, origin, hedgeyeVars>>

NextWrite ==
  \/ SetPoll
  \/ SetSend
  \/ WriteOpen
  \/ WriteFlush
  \/ WriteClose
  \/ WriteCrash
  \/ SetSleep

\* The poll loop with the write of the seen-set file followed step by step.
SpecWrite == InitSet /\ [][NextWrite]_vars


\* ------------------------------------------------ initialize_accounts
\* A faulty slice that takes every remaining account.
Batch_All(i) == {a \in Credentials : i <= a}

\* Lines 283-284, accounts[i : i + 3]: the batch that starts at position i.
Batch(i) == {a \in Credentials : i <= a /\ a < i + BatchSize}

\* The accounts of S in the order of the credentials file.
InOrder(S) == SelectSeq([a \in Credentials |-> a], LAMBDA a : a \in S)

\* main has read the credentials and calls initialize_accounts (line 548).
InitStartup ==
  /\ market = "closed"
  /\ main_pc = "sleep"
  /\ sched_pc = "off"
  /\ pending = <<>>
  /\ currently_running = {}
  /\ acct_rate_limited = {}
  /\ acct_file = NoFile({})
  /\ rate_limited = EmptyMap
  /\ proxy_file = NoFile(EmptyMap)
  /\ tasks = EmptyBag
  /\ lock_held = FALSE
  /\ lock_waiters = <<>>
  /\ upstream = 1
  /\ last_alert_file = NoAlert
  /\ sent = [k \in AlertIds |-> 0]
  /\ tracking = FALSE
  /\ markAge = [p \in Proxies |-> Never]
  /\ firstMarkAge = [p \in Proxies |-> Never]
  /\ acctMarkAge = [a \in Accounts |-> Never]
  /\ got = NoCall
  /\ outcome = NoOutcome
  /\ notified = NoNotice
  /\ cookie_files = {}
  /\ login_failed = {}
  /\ expired = {}
  /\ startup = [pc |-> "batch", i |-> 1, running |-> {}, result |-> <<>>,
                valid_accounts |-> <<>>]
  /\ acct_lock = NoHolder
  /\ SetIdle

StartupFrame ==
  UNCHANGED <<mainVars, schedVars, acctVars, proxyVars, taskVars, alertVars,
              histVars, login_failed, expired, acct_lock, setVars>>

\* Lines 283-288: the validate_credentials coroutines of the batch are
\* created and handed to asyncio.gather.
StartupGather ==
  /\ startup.pc = "batch"
  /\ startup' = [startup EXCEPT !.pc = "gather", !.running = Batch(startup.i)]
  /\ UNCHANGED cookie_files
  /\ StartupFrame

\* validate_credentials, lines 248-275: the validation of account a ends with
\* cookies (the cached ones passed the probe, or a login gave new ones that
\* were saved) or with None.
StartupValidated(a) ==
  /\ startup.pc = "gather"
  /\ a \in startup.running
  /\ \E r \in {"session", "none"} :
       /\ startup' = [startup EXCEPT !.running = @ \ {a},
                                     !.result = [b \in DOMAIN @ \cup {a} |->
                                                   IF b = a THEN r ELSE @[b]]]
       /\ cookie_files' = IF r = "session" THEN cookie_files \cup {a} ELSE cookie_files
  /\ StartupFrame

\* Lines 288-301: gather returns when the last validation of the batch has
\* ended; the accounts with cookies are appended in the order of the batch;
\* a pause of 0.8 s follows when accounts are left, the function returns
\* otherwise.
StartupCollect ==
  /\ startup.pc = "gather"
  /\ startup.running = {}
  /\ startup' =
       [startup EXCEPT
          !.valid_accounts =
             @ \o InOrder({a \in Batch(startup.i) : startup.result[a] = "session"}),
          !.pc = IF startup.i + BatchSize <= NCredentials THEN "pause" ELSE "done"]
  /\ UNCHANGED cookie_files
  /\ StartupFrame

\* Lines 298-299 and 283: the pause is over, the next batch begins.
StartupPause ==
  /\ startup.pc = "pause"
  /\ startup' = [startup EXCEPT !.pc = "batch", !.i = @ + BatchSize]
  /\ UNCHANGED cookie_files
  /\ StartupFrame

NextStartup ==
  \/ StartupGather
  \/ \E a \in Credentials : StartupValidated(a)
  \/ StartupCollect
  \/ StartupPause

\* initialize_accounts from its call to its return.
SpecStartup == InitStartup /\ [][NextStartup]_vars


\* ------------------------------------------------ the two locks, statement by statement
\* The same engine with each acquire and each release of last_alert_lock and of
\* AccountManager.lock as a step of its own. The event loop does not switch
\* coroutines between the acquire of a free lock and the next await, so every
\* behaviour of the engine is one of these; the converse does not hold.
Move(t, pc) == (tasks (-) One(t)) (+) One([t EXCEPT !.pc = pc])

\* The pcs at which a task is inside async with last_alert_lock.
InCritical == {"inside", "send_ws", "send_tg"}

LockFrame ==
  UNCHANGED <<mainVars, acct_rate_limited, acct_file, proxyVars, lock_waiters,
              upstream, histVars, cookie_files, login_failed, expired, startup,
              setVars>>

\* get_available_accounts, line 127: async with self.lock is entered.
AcquireEnter ==
  /\ sched_pc \in {"top", "idle", "backoff"}
  /\ acct_lock = NoHolder
  /\ acct_lock' = HeldByScheduler
  /\ sched_pc' = "select"
  /\ UNCHANGED <<pending, currently_running, tasks, lock_held, last_alert_file, sent>>
  /\ LockFrame

\* get_available_accounts, lines 128-136: the selection is made and the lock
\* released; lines 483-486 when nothing was selected.
AcquireExit ==
  /\ sched_pc = "select"
  /\ LET available == AvailableAccounts(acct_rate_limited, currently_running)
         n == Min(AccountsPerRound, Cardinality(available))
     IN  \E selected \in Samples(available, n) :
           /\ currently_running' = currently_running \cup Range(selected)
           /\ pending' = selected
           /\ sched_pc' = IF selected = <<>> THEN "idle" ELSE "pace"
  /\ acct_lock' = NoHolder
  /\ UNCHANGED <<tasks, lock_held, last_alert_file, sent>>
  /\ LockFrame

\* Line 399: async with last_alert_lock is entered by a task whose response
\* is parsed; the task waits while another task is inside.
LockEnter(t) ==
  /\ t.pc = "resp"
  /\ ~lock_held
  /\ lock_held' = TRUE
  /\ tasks' = Move(t, "inside")
  /\ UNCHANGED <<schedVars, currently_running, acct_lock, last_alert_file, sent>>
  /\ LockFrame

\* Lines 400-429 and 458-466: the record is read; a novel alert goes to
\* send_ws_message inside the block, otherwise the block is left, and
\* process_account returns.
LockRead(t) ==
  /\ t.pc = "inside"
  /\ IF Novel(last_alert_file, t.alert)
     THEN /\ tasks' = Move(t, "send_ws")
          /\ sent' = Bump(sent, t.alert.title)
          /\ UNCHANGED lock_held
     ELSE /\ tasks' = Move(t, "release")
          /\ lock_held' = FALSE
          /\ UNCHANGED sent
  /\ UNCHANGED <<schedVars, currently_running, acct_lock, last_alert_file>>
  /\ LockFrame

\* A faulty task that calls release_account inside the block.
AfterBlock_StillHeld(held) == held

\* Lines 444-458: the state of last_alert_lock when the async with block has
\* been left and process_account returns.
AfterBlock(held) == FALSE

\* Lines 438-458: send_telegram_message is over, the record is written and
\* the block is left.
LockCommit(t) ==
  /\ t.pc = "send_tg"
  /\ last_alert_file' = Committed(t.alert)
  /\ lock_held' = AfterBlock(lock_held)
  /\ tasks' = Move(t, "release")
  /\ UNCHANGED <<schedVars, currently_running, acct_lock, sent>>
  /\ LockFrame

\* process_account_with_release 522-523 and release_account 139: async with
\* self.lock is entered.
ReleaseEnter(t) ==
  /\ t.pc = "release"
  /\ acct_lock = NoHolder
  /\ acct_lock' = HeldByTask(t.email)
  /\ tasks' = Move(t, "releasing")
  /\ UNCHANGED <<schedVars, currently_running, lock_held, last_alert_file, sent>>
  /\ LockFrame

\* release_account 140-141: the account is removed, the lock released, the
\* task is over.
ReleaseExit(t) ==
  /\ t.pc = "releasing"
  /\ acct_lock' = NoHolder
  /\ Finish(t)
  /\ UNCHANGED <<schedVars, lock_held, last_alert_file, sent>>
  /\ LockFrame

NextLocks ==
  \/ AcquireEnter
  \/ AcquireExit
  \/ SchedLaunch
  \/ UpstreamChange
  \/ \E t \in BagToSet(tasks) : TaskServe(t)
  \/ \E t \in BagToSet(tasks) : LockEnter(t)
  \/ \E t \in BagToSet(tasks) : LockRead(t)
  \/ \E t \in BagToSet(tasks) : TaskWsSent(t)
  \/ \E t \in BagToSet(tasks) : LockCommit(t)
  \/ \E t \in BagToSet(tasks) : ReleaseEnter(t)
  \/ \E t \in BagToSet(tasks) : ReleaseExit(t)

\* One trading window, scheduler and fetch tasks, with the locks followed
\* statement by statement.
SpecLocks == InitWindow /\ [][NextLocks]_vars

\* C10: when a poll iteration of the bearcave or ibd loop is over, the items
\* sent are exactly the items of the fetched list whose identifier was not in
\* the seen set, in the order of the list, and the seen set in memory and the
\* one in the file both are the old seen set with the identifiers of the sent
\* items added.
C10_SetDedup ==
  set_pc = "sleep" =>
    /\ Len(dispatched) = Cardinality(FreshAt)
    /\ \A j \in DOMAIN dispatched : dispatched[j] = posts[FreshIndex(j)]
    /\ processed = seen_before \cup {ItemKey(scraper, d) : d \in Range(dispatched)}
    /\ Loaded(processed_file) = processed

\* C10 witness: with two identifiers seen, a fetch returned the two seen items
\* followed by a third; the iteration sent the third only and saved all three.
C10_Witness ==
  /\ set_pc = "sleep"
  /\ Cardinality(seen_before) = 2
  /\ Len(posts) = 3
  /\ ItemKey(scraper, posts[1]) \in seen_before
  /\ ItemKey(scraper, posts[2]) \in seen_before
  /\ posts[1] # posts[2]
  /\ dispatched = <<posts[3]>>
  /\ Cardinality(processed) = 3
  /\ processed_file.exists
  /\ Range(processed_file.data) = processed

\* The task of account e reaches the critical section in this step.
Entering(t) ==
  /\ t \in BagToSet(InFlight)
  /\ t.pc \in {"resp", "wait"}
  /\ \A u \in BagToSet(InFlight') : u.email = t.email => u.pc \notin {"resp", "wait"}

\* C11: a task that reaches the critical section dispatches its alert if and
\* only if no record is stored or the alert differs from the stored record in
\* title or in price; the record it then writes is that alert.
C11_FingerprintDedup ==
  [][/\ \A t \in BagToSet(InFlight) :
          Entering(t) =>
            ((\E u \in BagToSet(tasks') : u.email = t.email /\ u.pc = "send_ws")
               <=> (last_alert_file = NoAlert \/ Committed(t.alert) # last_alert_file))
     /\ \A t \in BagToSet(tasks) :
          (t.pc = "send_tg" /\ t \notin BagToSet(tasks'))
            => last_alert_file' = Committed(t.alert)]_vars

\* The fetch that ended in this step, if one did.
Ended == outcome'

C12_State ==
  \A a \in Accounts :
    acctMarkAge[a] # Never => a \in currently_running \/ a \in acct_rate_limited

C12_Step ==
  Ended.kind = "rate_limited" =>
    /\ sent' = sent
    /\ last_alert_file' = last_alert_file
    /\ Ended.email \in acct_rate_limited'
    /\ acct_file' = FileOf(acct_rate_limited')
    /\ Ended.proxy \in DOMAIN rate_limited'
    /\ rate_limited'[Ended.proxy] = 0
    /\ proxy_file' = FileOf(rate_limited')
    /\ Ended.email \notin currently_running'
    /\ sched_pc' = sched_pc
    /\ pending' = pending

\* C12: the step in which a fetch task observes a 429 sends nothing and writes
\* no alert record, leaves the proxy and the account marked and both marks
\* persisted, and releases the account, the scheduler staying where it was;
\* in no state is an account that was marked (and not cleared since) neither
\* checked out nor excluded.
C12_RateLimitOrder == []C12_State /\ [][C12_Step]_vars

\* C12 witness: a fetch has just ended with a 429 while the scheduler is in
\* the middle of a round and another fetch task is in flight.
C12_Witness ==
  /\ outcome.kind = "rate_limited"
  /\ outcome.email \in acct_rate_limited
  /\ outcome.email \notin currently_running
  /\ sched_pc = "pace"
  /\ tasks # EmptyBag

\* C13: the step in which the fetch of a task times out sends nothing, writes
\* no alert record, marks neither the proxy nor the account, ends the task
\* (it does not fetch again) and releases its account.
C13_TimeoutSoft ==
  [][Ended.kind = "timeout" =>
       /\ sent' = sent
       /\ last_alert_file' = last_alert_file
       /\ rate_limited' = rate_limited
       /\ proxy_file' = proxy_file
       /\ acct_rate_limited' = acct_rate_limited
       /\ acct_file' = acct_file
       /\ \A u \in BagToSet(InFlight') : u.email # Ended.email
       /\ BagCardinality(InFlight') = BagCardinality(InFlight) - 1
       /\ Ended.email \notin currently_running']_vars

\* C13 witness: a fetch has just timed out; its account is free again and not
\* excluded, its proxy is not excluded, the window is open.
C13_Witness ==
  /\ outcome.kind = "timeout"
  /\ outcome.email \notin currently_running
  /\ outcome.email \notin acct_rate_limited
  /\ outcome.proxy \notin DOMAIN rate_limited
  /\ market = "open"
  /\ main_pc = "monitor"

\* C14: over crashes and restarts of a set-variant scraper, at most one item
\* that was sent before a crash is sent again after the restart.
C14_OneDuplicate == Cardinality(resent) <= 1

\* C15: when an alert is dispatched, a failed send_ws_message does not keep
\* send_telegram_message from being attempted, and whichever of the two sends
\* failed, the alert is written to the last-alert file afterwards.
C15_Attempted ==
  (notified.ws # "none" /\ notified.telegram = "none")
    => \E t \in BagToSet(tasks) : t.email = notified.email /\ t.pc = "send_tg"

C15_Committed ==
  (notified.telegram = "none" /\ notified'.telegram # "none")
    => \E t \in BagToSet(tasks) :
         /\ t.email = notified.email
         /\ last_alert_file' = [title |-> t.alert.title, price |-> t.alert.price]

C15_NotifierIndependence == []C15_Attempted /\ [][C15_Committed]_vars

C15_Witness ==
  /\ notified.ws = "failed"
  /\ notified.telegram \in Results
  /\ \E a \in Alerts : last_alert_file = [title |-> a.title, price |-> a.price]
  /\ \A t \in BagToSet(tasks) : t.email # notified.email

C15_WitnessChatFailed ==
  /\ notified.ws = "ok"
  /\ notified.telegram = "failed"
  /\ \A t \in BagToSet(tasks) : t.email # notified.email

WellFormed(item) == HasKey(scraper, item) /\ Readable(item)

\* C16: a fetched item that lacks its identifier or another field the
\* dispatch path reads is not sent and not added to the seen set, the
\* well-formed new items of the same fetch are all sent, and the polling loop
\* does not end.
C16_MalformedDropped ==
  /\ set_pc # "exited"
  /\ \A j \in DOMAIN dispatched : WellFormed(dispatched[j])
  /\ set_pc = "sleep" =>
       \A i \in DOMAIN posts :
         (WellFormed(posts[i]) /\ ItemKey(scraper, posts[i]) \notin seen_before)
           => posts[i] \in Range(dispatched)

\* C17: an account whose login inside process_account failed is never
\* selected again by get_available_accounts during the run.
C17_AuthFailureDisqualifies ==
  \A a \in login_failed : a \notin currently_running

C18_Cleared ==
  (main_pc = "closing" /\ main_pc' # "closing") =>
    /\ main_pc' = "sleep"
    /\ sched_pc = "off"
    /\ rate_limited' = EmptyMap
    /\ acct_rate_limited' = {}
    /\ ~proxy_file'.exists
    /\ ~acct_file'.exists
    /\ AvailableProxies(rate_limited') = Proxies
    /\ AvailableAccounts(acct_rate_limited', currently_running') = Accounts

C18_OncePerClose ==
  /\ (main_pc # "closing" /\ main_pc' = "closing") =>
       (main_pc = "monitor" /\ market = "closed" /\ sched_pc' = "off")
  /\ (proxy_file.exists /\ ~proxy_file'.exists) => main_pc = "closing"
  /\ (acct_file.exists /\ ~acct_file'.exists) => main_pc = "closing"

\* C18: the step that runs both clear_rate_limits leaves both exclusion
\* collections empty and both files absent, so that every proxy and every
\* account can be selected next; it is taken with the scheduler task over,
\* once after each cancellation at a window close, and the files are removed
\* in no other step.
C18_ResetAtClose == [][C18_Cleared /\ C18_OncePerClose]_vars

\* C18 witness: the clear has just run at a close while a proxy mark younger
\* than the penalty existed; the map is empty and the file is gone.
C18_Witness ==
  /\ main_pc = "sleep"
  /\ market = "closed"
  /\ \E p \in Proxies : markAge[p] # Never /\ markAge[p] < RateLimitSeconds
  /\ rate_limited = EmptyMap
  /\ ~proxy_file.exists
  /\ ~acct_file.exists

\* C19: in every state, what a newly constructed ProxyManager and
\* AccountManager would load from the two files is the rate_limited collection
\* held in memory, so the new managers would hand out the same proxies and
\* exclude the same accounts.
C19_Persisted ==
  /\ LoadedProxies(proxy_file) = rate_limited
  /\ LoadedAccounts(acct_file) = acct_rate_limited
  /\ AvailableProxies(LoadedProxies(proxy_file)) = AvailableProxies(rate_limited)
  /\ AvailableAccounts(LoadedAccounts(acct_file), {})
       = AvailableAccounts(acct_rate_limited, {})

\* C19 witness: get_next_proxy has pruned the last expired entry and rewritten
\* the file with an empty map, while an account is excluded in memory and in
\* the accounts file.
C19_Witness ==
  /\ proxy_file.exists
  /\ proxy_file.data = EmptyMap
  /\ rate_limited = EmptyMap
  /\ acct_rate_limited # {}
  /\ acct_file.exists
  /\ acct_file.data = acct_rate_limited

\* The tasks created in this step.
Launched == BagToSet(tasks') \ BagToSet(tasks)

C20_Step ==
  /\ (sched_pc = "pace" /\ sched_pc' # "pace"
        /\ \A p \in Proxies : p \in DOMAIN PrunedRateLimited(rate_limited))
       => (Launched = {} /\ sched_pc' \in {"backoff", "off"})
  /\ (sched_pc # "backoff" /\ sched_pc' = "backoff")
       => (got' = Raised /\ Launched = {} /\ pending' = <<>>)
  /\ (AcquireStep
        /\ AvailableAccounts(acct_rate_limited, currently_running) = {})
       => (sched_pc' = "idle" /\ pending' = <<>> /\ Launched = {})
  /\ (sched_pc \in {"idle", "backoff"} /\ sched_pc' # sched_pc)
       => sched_pc' \in {"pace", "idle", "off"}
  /\ (sched_pc # "off" /\ sched_pc' = "off")
       => (main_pc = "monitor" /\ market = "closed")
  /\ \A t \in Launched :
       /\ pending # <<>>
       /\ t.email = Head(pending)
       /\ t.email \in Accounts
       /\ t.proxy \in Proxies
       /\ t.proxy \notin DOMAIN rate_limited'

C20_State ==
  /\ sched_pc \in {"top", "idle", "backoff"} => ENABLED SchedAcquire
  /\ sched_pc = "pace" => ENABLED (SchedLaunch \/ SchedNoProxy)

\* C20: with every proxy excluded the get_next_proxy call raises at once and
\* the scheduler goes to its 1 s sleep without creating a task; with no account
\* free the selection is empty and the scheduler goes to its 0.4 s sleep; from
\* either sleep its next step is a new round; it stops only when the controller
\* cancels it; a step of the scheduler is possible in each of its states; and
\* every task created has the account at the head of the round and a proxy
\* that is not excluded.
C20_AcquireNeverBlocks == []C20_State /\ [][C20_Step]_vars

\* C20 witness: get_next_proxy has just raised with every proxy excluded and
\* the scheduler is in its 1 s sleep.
C20_Witness ==
  /\ sched_pc = "backoff"
  /\ got = Raised
  /\ DOMAIN rate_limited = Proxies
  /\ market = "open"

\* C21: a process started after a crash during a write of the seen-set file
\* reads a complete document (the value written before or the new one): it
\* never finds the file cut short.
C21_AtomicWrite == set_pc = "exited" => ~torn

\* The identifiers held by the seen-set file.
Persisted(file) == IF file.exists THEN Range(file.data) ELSE {}

C23_BoundedConcurrency == BagCardinality(InFlight) <= AccountsPerRound

\* The item that identifier k belongs to.
Owns(item, k) ==
  IF scraper = "ibd" THEN ToString(item.id) = k ELSE item.canonical_url = k

\* C24: over poll iterations and restarts of the bearcave and ibd loops, every
\* identifier in the seen-set file was in the file at the first start or is
\* the identifier of an item that was handed to the notifiers before.
C24_CommitAfterDispatch ==
  \A k \in Persisted(processed_file) :
    k \in origin.first \/ \E item \in origin.sent : Owns(item, k)

\* C24 witness: an iteration of a scraper that started without a file has
\* sent two items and saved their identifiers.
C24_Witness ==
  /\ set_pc = "sleep"
  /\ origin.first = {}
  /\ Cardinality(Persisted(processed_file)) = 2
  /\ Len(dispatched) = 2
  /\ Range(dispatched) = origin.sent

\* C24 in the hedgeye scraper: the last-alert record changes only in the step
\* that ends the send_telegram_message of a task whose send_ws_message ended
\* before, and becomes the record of that task's alert.
C24_RecordAfterSends ==
  [][last_alert_file' # last_alert_file =>
       /\ notified.ws \in Results
       /\ notified.telegram = "none"
       /\ notified'.telegram \in Results
       /\ \E t \in BagToSet(tasks) :
            /\ t.email = notified.email
            /\ t.pc = "send_tg"
            /\ last_alert_file' = [title |-> t.alert.title, price |-> t.alert.price]]_vars

\* C25: within an iteration of the bearcave or ibd loop no identifier is sent
\* to the notifiers twice, whatever list the fetch returned.
C25_OncePerIdentifier ==
  \A i, j \in DOMAIN dispatched :
    ItemKey(scraper, dispatched[i]) = ItemKey(scraper, dispatched[j]) => i = j

\* An account that is not excluded and has no fetch task in flight, and a
\* proxy that get_next_proxy could return.
CanPoll ==
  /\ market = "open"
  /\ \E a \in Accounts :
       /\ a \notin acct_rate_limited
       /\ \A t \in BagToSet(InFlight) : t.email # a
  /\ AvailableProxies(rate_limited) # {}

C27_ThrottledValidation ==
  /\ Cardinality(startup.running) <= BatchSize
  /\ \A a \in startup.running :
       \A b \in Credentials :
         (b - 1) \div BatchSize < (a - 1) \div BatchSize => b \in DOMAIN startup.result
  /\ startup.pc = "done" =>
       /\ DOMAIN startup.result = Credentials
       /\ startup.valid_accounts
            = InOrder({a \in Credentials : startup.result[a] = "session"})

\* C27 witness: initialize_accounts has returned a roster made of accounts of
\* both batches, with an account of each batch left out.
C27_Witness ==
  /\ startup.pc = "done"
  /\ NCredentials > BatchSize
  /\ startup.valid_accounts = <<1, 3, NCredentials>>
  /\ startup.result[2] = "none"

\* The tasks inside async with last_alert_lock.
Inside == {t \in BagToSet(tasks) : t.pc \in InCritical}

\* A step of the task that is inside the last_alert_lock block.
CriticalStep ==
  \E t \in BagToSet(tasks) : LockRead(t) \/ TaskWsSent(t) \/ LockCommit(t)

\* The step that releases AccountManager.lock.
ManagerStep == AcquireExit \/ \E t \in BagToSet(tasks) : ReleaseExit(t)

\* C28: the task that holds AccountManager.lock, and every task that waits
\* for it, is not inside the last_alert_lock block: when last_alert_lock is
\* held at that moment, another task is inside the block; the scheduler takes
\* AccountManager.lock only; and whenever a lock is held, its holder can take
\* a step.
C28_NoNestedLocks ==
  /\ Cardinality(Inside) <= 1
  /\ \A t \in BagToSet(tasks) :
       t.pc \in {"release", "releasing"} =>
         (lock_held => \E u \in Inside : u.email # t.email)
  /\ acct_lock.by = "task" =>
       \E t \in BagToSet(tasks) : t.email = acct_lock.email /\ t.pc = "releasing"
  /\ acct_lock.by = "scheduler" <=> sched_pc = "select"
  /\ lock_held => ENABLED CriticalStep
  /\ acct_lock # NoHolder => ENABLED ManagerStep

\* C28 witness: a task holds AccountManager.lock in release_account while
\* another task is inside the last_alert_lock block waiting for a notifier,
\* and a third waits for last_alert_lock.
C28_Witness ==
  /\ acct_lock.by = "task"
  /\ lock_held
  /\ \E u \in Inside : u.pc = "send_tg" /\ u.email # acct_lock.email
  /\ \E w \in BagToSet(tasks) : w.pc = "resp"

\* C29: a task that reaches the critical section with an alert equal to the
\* stored record in title and price leaves the record as it is, sends nothing,
\* changes no exclusion collection or file, and ends, releasing its account
\* and no other.
C29_ReplaceOnlyOnChange ==
  [][\A t \in BagToSet(InFlight) :
       (Entering(t)
          /\ last_alert_file = [title |-> t.alert.title, price |-> t.alert.price])
         => /\ last_alert_file' = last_alert_file
            /\ sent' = sent
            /\ notified' = notified
            /\ \A u \in BagToSet(InFlight') : u.email # t.email
            /\ UNCHANGED <<rate_limited, proxy_file, acct_rate_limited, acct_file>>
            /\ currently_running' = currently_running \ {t.email}
            /\ lock_held' = FALSE]_vars

\* C29 witness: a record is stored, nothing was sent during this run, and a
\* task has ended and released its account while the other task is still on
\* its way to the critical section.
C29_Witness ==
  /\ last_alert_file # NoAlert
  /\ sent = [k \in AlertIds |-> 0]
  /\ notified = NoNotice
  /\ BagCardinality(InFlight) = 1
  /\ Cardinality(currently_running) = 1
  /\ \E t \in BagToSet(tasks) :
       /\ t.pc = "resp"
       /\ t.email \in currently_running
       /\ last_alert_file = [title |-> t.alert.title, price |-> t.alert.price]

\* The fetch tasks whose request is under way: process_account has cookies
\* and has called fetch_alert_details.
Fetching == {t \in BagToSet(tasks) : t.pc = "fetch" /\ t.email \in cookie_files}

\* C30: no fetch is under way with cookies that did not pass the probe when
\* the fetch was issued: the cookies of a fetching task are live.
C30_ValidatedSessions == \A t \in Fetching : t.email \notin expired

====
